---- MODULE Spec2Model ----
(***************************************************************************)
(* Card stack navigation and view-state engine of IsoWeather.              *)
(* The React component App (src/App.tsx) is modelled as a state machine:   *)
(* one variable per useState / useRef cell the navigation logic reads, one *)
(* action per event handler, and one action per resumption point of every  *)
(* async handler (the values an async handler closed over when it was      *)
(* called are kept in the flow records).  The full image view of           *)
(* WeatherCard and the search-as-you-type of SearchInput are modelled the  *)
(* same way.  Each specification runs one part of the program:             *)
(*   Spec         the application flows with a minimal pointer alphabet    *)
(*   SpecGesture  the stack under the full pointer alphabet                *)
(*   SpecEdit     the full image view of one card                          *)
(*   SpecSearch   SearchInput and the search flow a selection starts       *)
(*   SpecLayout   getCardStyle under drag and resize                       *)
(*   SpecRemove   the remove button with the cursor anywhere               *)
(*   SpecDismiss  drag-to-dismiss of the expanded or preview card           *)
(*   SpecLive     Spec with fairness on timers and collaborator calls       *)
(***************************************************************************)
EXTENDS Integers, Sequences, FiniteSets, TLC

\* ---------------------------------------------------------------- bounds
MaxCards == 2    \* cards saved at the same time
MaxId == 2       \* weather ids (crypto.randomUUID) handed out in one run
MaxIdx == 3      \* |activeIndex| explored
MaxStack == 4    \* cards of the collections SpecGesture starts from
MaxEdits == 2    \* edit requests issued in one run
MaxCycles == 3   \* debounce cycles that search or clear in one run

\* ------------------------------------------------------ program constants
SWIPE_THRESHOLD == 100
DRAG_THRESHOLD == 5

\* ----------------------------------------------------------------- inputs
Locations == {1}         \* LocationData.id of the real places searched
GeneratedImages == {1}   \* images the scene generator returns
Placeholder == 0         \* the "Generation Failed" fallback image
ViewConfigs == {1}       \* pan/zoom configs (0 is "undefined")
\* Pointer x coordinates delivered by the browser.  A gesture starts at 150;
\* GestureXs gives the deltas -101, -100, -6, -5, -4, 4, 5, 6, 100 and 101.
StartXs == {150}
GestureXs == {49, 50, 144, 145, 146, 154, 155, 156, 250, 251}
AppXs == {49, 154}       \* the deltas -101 and 4

Null == 0        \* null id (ids are 1..MaxId)
NoPos == -1      \* dragStartX.current === null
NoCard == [id |-> 0, born |-> 0, loc |-> 0, fict |-> FALSE, img |-> 0, view |-> 0]

Abs(n) == IF n < 0 THEN -n ELSE n

VARIABLES
    state,            \* AppState
    savedCards,       \* sequence of cards
    activeIndex,      \* unbounded integer cursor
    dragX, isDragging, dragStartX,
    previewCard,      \* a card or NoCard
    expandedCardId,   \* an id or Null
    refreshingCardId, \* an id or Null
    errorMsg,         \* "" or a message
    nextId,           \* next fresh weather id
    searchFlow,       \* handleSearch in flight
    fantasyFlow,      \* handleFantasyCreate in flight
    refreshFlow,      \* handleRefresh in flight
    leftSwipes,       \* history: [n |-> committed left swipes since Init,
                      \* only |-> no other operation moved activeIndex]
    \* local state of the WeatherCard shown expanded or as preview
    showFullImage, showAdjustInput, adjustPrompt, currentViewConfig,
    history,          \* sequence of images [img, view]
    historyIndex, isEditing,
    editFlows,        \* handleSubmitAdjust calls awaiting editWeatherScene
    editCount,        \* edit requests issued so far
    \* state of SearchInput
    value,            \* text of the input, a sequence of characters
    suggestions,      \* sequence of location ids
    preventSearch,    \* the latch handleSelect sets
    debounceTimer,    \* the 400 ms timeout of the [value] effect is pending
    searchReqs,       \* searchCities calls in flight: [n, q]
    cycles,           \* debounce cycles that searched or cleared so far
    sugFrom,          \* history: the cycle that wrote suggestions
    screenWidth,      \* window.innerWidth as last read
    \* drag-to-dismiss state of the WeatherCard shown expanded or as preview
    touchStart,       \* clientY of the touch start, or NoPos
    dragOffset,       \* in 1/20 px
    isDismissing,
    scrolledTop,      \* scrollRef.current.scrollTop <= 2
    dismissTimer,     \* pending 300 ms timeout: "none", or the overlay
                      \* ("expanded", "preview") whose onToggleExpand it calls
    previewDragOffset \* App state set through onDrag, in 1/20 px

\* the program's state
pvars == <<state, savedCards, activeIndex, dragX, isDragging, dragStartX,
           previewCard, expandedCardId, refreshingCardId, errorMsg, nextId,
           searchFlow, fantasyFlow, refreshFlow>>
\* the WeatherCard's state
cardVars == <<showFullImage, showAdjustInput, adjustPrompt, currentViewConfig,
              history, historyIndex, isEditing, editFlows, editCount>>
\* SearchInput's state
inputVars == <<value, suggestions, preventSearch, debounceTimer, searchReqs,
               cycles, sugFrom>>
\* what the App-level specifications leave alone
\* the drag-to-dismiss state
dismissVars == <<touchStart, dragOffset, isDismissing, scrolledTop,
                 dismissTimer, previewDragOffset>>
restVars == <<leftSwipes, cardVars, inputVars, screenWidth, dismissVars>>
\* what the WeatherCard / SearchInput handlers leave alone besides pvars
notCard == <<leftSwipes, inputVars, screenWidth, dismissVars>>
notInput == <<leftSwipes, cardVars, screenWidth, dismissVars>>
vars == <<pvars, leftSwipes, cardVars, inputVars, screenWidth, dismissVars>>

gestureVars == <<dragX, isDragging, dragStartX>>
flowVars == <<searchFlow, fantasyFlow, refreshFlow>>

NoSearch == [pc |-> "idle", loc |-> 0, diff |-> 0, target |-> 0, wid |-> 0]
NoRefresh == [pc |-> "idle", card |-> NoCard, pv |-> 0]

\* ------------------------------------------------------------- helpers
\* JavaScript's % keeps the sign of the dividend.
JsRem(a, n) == IF a >= 0 THEN a % n ELSE -((-a) % n)

WrapNoFix(index, n) == JsRem(index, n)
\* wrappedIndex of getCardData: ((index % N) + N) % N
Wrap(index, n) == JsRem(JsRem(index, n) + n, n)

getCardData(index) ==
    IF Len(savedCards) = 0 THEN NoCard
    ELSE savedCards[Wrap(index, Len(savedCards)) + 1]

\* Array.prototype.findIndex(c => c[field] === wanted), 0-based, -1 when absent
FindIndex(cards, field, wanted) ==
    IF \E i \in 1..Len(cards) : cards[i][field] = wanted
    THEN (CHOOSE i \in 1..Len(cards) :
              /\ cards[i][field] = wanted
              /\ \A j \in 1..(i-1) : cards[j][field] # wanted) - 1
    ELSE -1

\* prev.map(c => c.weather.id === id ? updated : c)
MapReplace(cards, id, updated) ==
    [i \in 1..Len(cards) |-> IF cards[i].id = id THEN updated ELSE cards[i]]

\* prev.filter(c => c.weather.id !== id)
RECURSIVE FilterOut(_, _)
FilterOut(cards, id) ==
    IF cards = <<>> THEN <<>>
    ELSE IF Head(cards).id = id THEN FilterOut(Tail(cards), id)
         ELSE <<Head(cards)>> \o FilterOut(Tail(cards), id)

\* savedCards.find(c => c.weather.id === expandedCardId)
expandedCard ==
    LET i == FindIndex(savedCards, "id", expandedCardId)
    IN IF expandedCardId = Null \/ i = -1 THEN NoCard ELSE savedCards[i + 1]

\* ------------------------------------------------- what the user can reach
LoadingShown == state \in {"FETCHING_WEATHER", "GENERATING_IMAGE"}
\* the stack container is rendered, so its pointer handlers are attached
StackMounted == Len(savedCards) > 0 /\ expandedCardId = Null
\* A card of the stack can be clicked: nothing is drawn over the stack, and
\* the pointer-up that precedes every click has run handleTouchEnd.
StackClickable ==
    /\ StackMounted /\ previewCard = NoCard
    /\ ~LoadingShown /\ state # "ERROR"
    /\ dragStartX = NoPos
PreviewClickable == previewCard # NoCard /\ ~LoadingShown
ExpandedClickable ==
    expandedCard # NoCard /\ previewCard = NoCard /\ ~LoadingShown

\* ----------------------------------------------------------------- Init
\* useState initial values of WeatherCard (no full image view open)
CardInit ==
    /\ showFullImage = FALSE
    /\ showAdjustInput = FALSE
    /\ adjustPrompt = ""
    /\ currentViewConfig = 0
    /\ history = <<>>
    /\ historyIndex = 0
    /\ isEditing = FALSE
    /\ editFlows = <<>>
    /\ editCount = 0

\* useState(375)
InitialWidth == 375

\* a freshly mounted WeatherCard, scrolled to the top
DismissInit ==
    /\ touchStart = NoPos
    /\ dragOffset = 0
    /\ isDismissing = FALSE
    /\ scrolledTop = TRUE
    /\ dismissTimer = "none"
    /\ previewDragOffset = 0

\* SearchInput after mount: the [value] effect has set its first timeout
InputInit ==
    /\ value = <<>>
    /\ suggestions = <<>>
    /\ preventSearch = FALSE
    /\ debounceTimer = TRUE
    /\ searchReqs = <<>>
    /\ cycles = 0
    /\ sugFrom = 0

Init ==
    /\ state = "IDLE"
    /\ savedCards = <<>>
    /\ activeIndex = 0
    /\ dragX = 0
    /\ isDragging = FALSE
    /\ dragStartX = NoPos
    /\ previewCard = NoCard
    /\ expandedCardId = Null
    /\ refreshingCardId = Null
    /\ errorMsg = ""
    /\ nextId = 1
    /\ searchFlow = NoSearch
    /\ fantasyFlow = "idle"
    /\ refreshFlow = NoRefresh
    /\ leftSwipes = [n |-> 0, only |-> TRUE]
    /\ CardInit
    /\ InputInit
    /\ screenWidth = InitialWidth
    /\ DismissInit

\* ------------------------------------------------------ gesture handlers
handleTouchStart(clientX) ==
    /\ StackMounted
    /\ IF expandedCardId # Null \/ previewCard # NoCard \/ Len(savedCards) = 0
       THEN UNCHANGED pvars
       ELSE /\ dragStartX' = clientX
            /\ UNCHANGED <<state, savedCards, activeIndex, dragX, isDragging,
                           previewCard, expandedCardId, refreshingCardId,
                           errorMsg, nextId, flowVars>>

StartsDragAtThreshold(delta) == Abs(delta) >= DRAG_THRESHOLD
\* Math.abs(delta) > DRAG_THRESHOLD
StartsDrag(delta) == Abs(delta) > DRAG_THRESHOLD

\* if (isDragging) setDragX(delta): isDragging is the rendered value
Reported(delta) == IF isDragging THEN delta ELSE dragX

handleTouchMove(clientX) ==
    /\ StackMounted
    /\ IF dragStartX = NoPos \/ expandedCardId # Null \/ previewCard # NoCard
       THEN UNCHANGED pvars
       ELSE LET delta == clientX - dragStartX IN
            /\ isDragging' = (isDragging \/ StartsDrag(delta))
            /\ dragX' = Reported(delta)
            /\ UNCHANGED <<state, savedCards, activeIndex, dragStartX,
                           previewCard, expandedCardId, refreshingCardId,
                           errorMsg, nextId, flowVars>>

SwipeStepAtThreshold ==
    IF isDragging /\ Abs(dragX) >= SWIPE_THRESHOLD
    THEN (IF dragX > 0 THEN -1 ELSE 1)
    ELSE 0
\* the change of activeIndex a release makes
SwipeStep ==
    IF isDragging /\ Abs(dragX) > SWIPE_THRESHOLD
    THEN (IF dragX > 0 THEN -1 ELSE 1)
    ELSE 0

AdvancedWrapped(by) == Wrap(activeIndex + by, Len(savedCards))
\* setActiveIndex(prev => prev + by): the cursor is stored unwrapped
Advanced(by) == activeIndex + by

handleTouchEnd ==
    /\ StackMounted
    /\ IF dragStartX = NoPos
       THEN UNCHANGED pvars
       ELSE /\ Abs(activeIndex + SwipeStep) <= MaxIdx
            /\ activeIndex' = Advanced(SwipeStep)
            /\ dragX' = 0
            /\ dragStartX' = NoPos
            /\ isDragging' = FALSE
            /\ UNCHANGED <<state, savedCards, previewCard, expandedCardId,
                           refreshingCardId, errorMsg, nextId, flowVars>>

\* --------------------------------------------------------- render window
Min(a, b) == IF a < b THEN a ELSE b
WindowOffsets == {-2, -1, 0, 1, 2, 3, 4}

RenderedOffsetsOffByOne(activeLength) ==
    {offset \in WindowOffsets :
        /\ ~(offset > 0 /\ offset > Min(activeLength, 3))
        /\ ~(activeLength = 1 /\ offset # 0)
        /\ activeLength # 0}
\* offsets of [-2..4] for which the map callback returns a card element
RenderedOffsets(activeLength) ==
    {offset \in WindowOffsets :
        /\ ~(offset > 0 /\ offset >= Min(activeLength, 3))
        /\ ~(activeLength = 1 /\ offset # 0)
        /\ activeLength # 0}

JumpedToNeighbour(offset) == Advanced(IF offset > 0 THEN 1 ELSE -1)
\* setActiveIndex(prev => prev + offset) of a card beside the centre
Jumped(offset) == Advanced(offset)

\* onClick of the card rendered at a relative offset
cardClick(offset) ==
    /\ StackClickable
    /\ offset \in RenderedOffsets(Len(savedCards))
    /\ IF isDragging
       THEN UNCHANGED pvars
       ELSE /\ IF offset = 0
               THEN /\ expandedCardId' = getCardData(activeIndex + offset).id
                    /\ UNCHANGED activeIndex
               ELSE /\ Abs(activeIndex + offset) <= MaxIdx
                    /\ activeIndex' = Jumped(offset)
                    /\ UNCHANGED expandedCardId
            /\ UNCHANGED <<state, savedCards, gestureVars, previewCard,
                           refreshingCardId, errorMsg, nextId, flowVars>>

\* ------------------------------------------------------------ handleSearch
\* SearchInput is disabled unless state is IDLE or SUCCESS.
handleSearch(loc) ==
    /\ state \in {"IDLE", "SUCCESS"}
    /\ searchFlow.pc = "idle"
    /\ state' = "FETCHING_WEATHER"
    /\ errorMsg' = ""
    /\ previewCard' = NoCard
    /\ LET existingIndex == FindIndex(savedCards, "loc", loc) IN
       IF existingIndex # -1
       THEN \* the timer callback closes over activeIndex and savedCards
            LET currentMod == Wrap(activeIndex, Len(savedCards)) IN
            searchFlow' = [pc |-> "timer", loc |-> loc,
                           diff |-> existingIndex - currentMod,
                           target |-> savedCards[existingIndex + 1].id,
                           wid |-> 0]
       ELSE searchFlow' = [NoSearch EXCEPT !.pc = "weather", !.loc = loc]
    /\ UNCHANGED <<savedCards, activeIndex, gestureVars, expandedCardId,
                   refreshingCardId, nextId, fantasyFlow, refreshFlow>>

\* the setTimeout(..., 1000) callback of the duplicate branch
searchTimer ==
    /\ searchFlow.pc = "timer"
    /\ Abs(activeIndex + searchFlow.diff) <= MaxIdx
    /\ activeIndex' = Advanced(searchFlow.diff)
    /\ expandedCardId' = searchFlow.target
    /\ state' = "IDLE"
    /\ searchFlow' = NoSearch
    /\ UNCHANGED <<savedCards, gestureVars, previewCard, refreshingCardId,
                   errorMsg, nextId, fantasyFlow, refreshFlow>>

\* await getWeatherData(location) resolved: a snapshot with a fresh id
searchWeatherOk ==
    /\ searchFlow.pc = "weather"
    /\ nextId <= MaxId
    /\ state' = "GENERATING_IMAGE"
    /\ searchFlow' = [searchFlow EXCEPT !.pc = "image", !.wid = nextId]
    /\ nextId' = nextId + 1
    /\ UNCHANGED <<savedCards, activeIndex, gestureVars, previewCard,
                   expandedCardId, refreshingCardId, errorMsg, fantasyFlow,
                   refreshFlow>>

\* await getWeatherData(location) rejected: the catch block
searchFail ==
    /\ searchFlow.pc = "weather"
    /\ errorMsg' = "Something went wrong."
    /\ state' = "ERROR"
    /\ searchFlow' = NoSearch
    /\ UNCHANGED <<savedCards, activeIndex, gestureVars, previewCard,
                   expandedCardId, refreshingCardId, nextId, fantasyFlow,
                   refreshFlow>>

\* Promise.all([generateWeatherScene, getCityNativeName]) resolved;
\* generateWeatherScene never rejects, image 0 is its fallback placeholder
searchImageDone(image) ==
    /\ searchFlow.pc = "image"
    /\ previewCard' = [id |-> searchFlow.wid, born |-> searchFlow.wid,
                       loc |-> searchFlow.loc, fict |-> FALSE,
                       img |-> image, view |-> 0]
    /\ state' = "SUCCESS"
    /\ searchFlow' = NoSearch
    /\ UNCHANGED <<savedCards, activeIndex, gestureVars, expandedCardId,
                   refreshingCardId, errorMsg, nextId, fantasyFlow,
                   refreshFlow>>

\* ----------------------------------------------------- handleFantasyCreate
\* The wand button lives in the header, which is moved off screen while a
\* card is expanded and is covered by the loading screen.
handleFantasyCreate ==
    /\ ~LoadingShown
    /\ expandedCardId = Null
    /\ fantasyFlow = "idle"
    /\ state' = "GENERATING_IMAGE"
    /\ errorMsg' = ""
    /\ fantasyFlow' = "pending"
    /\ UNCHANGED <<savedCards, activeIndex, gestureVars, previewCard,
                   expandedCardId, refreshingCardId, nextId, searchFlow,
                   refreshFlow>>

fantasyDone(image) ==
    /\ fantasyFlow = "pending"
    /\ nextId <= MaxId
    /\ previewCard' = [id |-> nextId, born |-> nextId, loc |-> 0,
                       fict |-> TRUE, img |-> image, view |-> 0]
    /\ nextId' = nextId + 1
    /\ state' = "SUCCESS"
    /\ fantasyFlow' = "idle"
    /\ UNCHANGED <<savedCards, activeIndex, gestureVars, expandedCardId,
                   refreshingCardId, errorMsg, searchFlow, refreshFlow>>

fantasyFail ==
    /\ fantasyFlow = "pending"
    /\ errorMsg' = "Failed to construct fantasy world."
    /\ state' = "ERROR"
    /\ fantasyFlow' = "idle"
    /\ UNCHANGED <<savedCards, activeIndex, gestureVars, previewCard,
                   expandedCardId, refreshingCardId, nextId, searchFlow,
                   refreshFlow>>

\* ------------------------------------------------------------ handleRefresh
\* Called with the card the pressed refresh button belongs to.  The handler
\* closes over previewCard as it was when the button was pressed.
RefreshRejectedNever == FALSE
\* if (refreshingCardId) return;
RefreshRejected == refreshingCardId # Null

handleRefresh(card) ==
    /\ card # NoCard
    /\ \/ (StackClickable /\ \E o \in RenderedOffsets(Len(savedCards)) :
                                 card = getCardData(activeIndex + o))
       \/ (ExpandedClickable /\ card = expandedCard)
       \/ (PreviewClickable /\ card = previewCard)
    /\ IF RefreshRejected
       THEN UNCHANGED pvars
       ELSE /\ refreshingCardId' = card.id
            /\ refreshFlow' = [pc |-> "pending", card |-> card,
                               pv |-> previewCard.id]
            /\ UNCHANGED <<state, savedCards, activeIndex, gestureVars,
                           previewCard, expandedCardId, errorMsg, nextId,
                           searchFlow, fantasyFlow>>

\* the card built after the awaits of handleRefresh
RefreshedCard(card, image, freshId) ==
    IF card.fict
    THEN \* { ...card, image: updatedImage }
         [card EXCEPT !.img = image, !.view = 0]
    ELSE \* { weather: { ...weatherData, nativeCity }, image: generatedImage }
         \* weatherData is a new getWeatherData snapshot with its own id
         [id |-> freshId, born |-> card.born, loc |-> card.loc,
          fict |-> FALSE, img |-> image, view |-> 0]

refreshDone(image) ==
    /\ refreshFlow.pc = "pending"
    /\ refreshFlow.card.fict \/ nextId <= MaxId
    \* regenerateFantasyScene rejects where generateWeatherScene falls back
    /\ refreshFlow.card.fict => image # Placeholder
    /\ LET card == refreshFlow.card
           updatedCard == RefreshedCard(card, image, nextId)
       IN /\ IF refreshFlow.pv = card.id
             THEN /\ previewCard' = updatedCard
                  /\ UNCHANGED savedCards
             ELSE /\ savedCards' = MapReplace(savedCards, card.id, updatedCard)
                  /\ UNCHANGED previewCard
          /\ nextId' = IF card.fict THEN nextId ELSE nextId + 1
    /\ refreshingCardId' = Null
    /\ refreshFlow' = NoRefresh
    /\ UNCHANGED <<state, activeIndex, gestureVars, expandedCardId, errorMsg,
                   searchFlow, fantasyFlow>>

refreshFailNoFinally ==
    /\ refreshFlow.pc = "pending"
    /\ refreshFlow' = NoRefresh
    /\ UNCHANGED <<state, savedCards, activeIndex, gestureVars, previewCard,
                   expandedCardId, refreshingCardId, errorMsg, nextId,
                   searchFlow, fantasyFlow>>
\* getWeatherData or regenerateFantasyScene rejected: catch, then finally
refreshFail ==
    /\ refreshFlow.pc = "pending"
    /\ refreshingCardId' = Null
    /\ refreshFlow' = NoRefresh
    /\ UNCHANGED <<state, savedCards, activeIndex, gestureVars, previewCard,
                   expandedCardId, errorMsg, nextId, searchFlow, fantasyFlow>>

\* --------------------------------------------------------- handleRemoveCard
\* the remove button is rendered on the centre card only
handleRemoveCard(id) ==
    /\ StackClickable
    /\ id = getCardData(activeIndex).id
    /\ LET newCards == FilterOut(savedCards, id) IN
       /\ savedCards' = newCards
       /\ IF Len(newCards) = 0
          THEN state' = "IDLE" /\ activeIndex' = 0
          ELSE UNCHANGED <<state, activeIndex>>
    /\ UNCHANGED <<gestureVars, previewCard, expandedCardId, refreshingCardId,
                   errorMsg, nextId, flowVars>>

\* ------------------------------------- handleImageUpdate / handleUpdateView
\* target card of both handlers
TargetCard == IF previewCard # NoCard THEN previewCard ELSE expandedCard

\* commits updatedCard to the preview or to the expanded card's slot
CommitCard(updatedCard) ==
    IF previewCard # NoCard
    THEN previewCard' = updatedCard /\ UNCHANGED savedCards
    ELSE IF expandedCardId # Null
         THEN /\ savedCards' = MapReplace(savedCards, expandedCardId, updatedCard)
              /\ UNCHANGED previewCard
         ELSE UNCHANGED <<savedCards, previewCard>>

handleImageUpdate(newImage) ==
    /\ PreviewClickable \/ ExpandedClickable
    /\ IF TargetCard = NoCard
       THEN UNCHANGED pvars
       ELSE /\ CommitCard([TargetCard EXCEPT !.img = newImage.img,
                                             !.view = newImage.view])
            /\ UNCHANGED <<state, activeIndex, gestureVars, expandedCardId,
                           refreshingCardId, errorMsg, nextId, flowVars>>

handleUpdateView(viewConfig) ==
    /\ PreviewClickable \/ ExpandedClickable
    /\ IF TargetCard = NoCard
       THEN UNCHANGED pvars
       ELSE /\ CommitCard([TargetCard EXCEPT !.view = viewConfig])
            /\ UNCHANGED <<state, activeIndex, gestureVars, expandedCardId,
                           refreshingCardId, errorMsg, nextId, flowVars>>

\* -------------------------------------------------------- handleSavePreview
SavedIndexOffByOne(cards) == Len(cards) + 1
\* setActiveIndex(savedCards.length): the length before the append
SavedIndex(cards) == Len(cards)

handleSavePreview ==
    /\ ~LoadingShown
    /\ IF previewCard = NoCard
       THEN UNCHANGED pvars
       ELSE /\ Len(savedCards) < MaxCards
            /\ savedCards' = Append(savedCards, previewCard)
            /\ activeIndex' = SavedIndex(savedCards)
            /\ previewCard' = NoCard
            /\ state' = "IDLE"
            /\ UNCHANGED <<gestureVars, expandedCardId, refreshingCardId,
                           errorMsg, nextId, flowVars>>

\* onToggleExpand of the preview overlay (cancel)
previewCancel ==
    /\ PreviewClickable
    /\ previewCard' = NoCard
    /\ UNCHANGED <<state, savedCards, activeIndex, gestureVars, expandedCardId,
                   refreshingCardId, errorMsg, nextId, flowVars>>

\* onToggleExpand of the expanded overlay (return)
expandedClose ==
    /\ ExpandedClickable
    /\ expandedCardId' = Null
    /\ UNCHANGED <<state, savedCards, activeIndex, gestureVars, previewCard,
                   refreshingCardId, errorMsg, nextId, flowVars>>

\* "Try another city" on the error panel, which overlays cover
dismissError ==
    /\ state = "ERROR"
    /\ previewCard = NoCard
    /\ expandedCard = NoCard
    /\ state' = "IDLE"
    /\ UNCHANGED <<savedCards, activeIndex, gestureVars, previewCard,
                   expandedCardId, refreshingCardId, errorMsg, nextId, flowVars>>

\* ---------------------------------------------------------- specification
AllCards == {savedCards[i] : i \in 1..Len(savedCards)} \cup {previewCard}

\* The application: gestures, navigation and the asynchronous flows.
Next ==
    \/ (\E x \in StartXs : handleTouchStart(x)) /\ UNCHANGED restVars
    \/ (\E x \in AppXs : handleTouchMove(x)) /\ UNCHANGED restVars
    \/ handleTouchEnd /\ UNCHANGED restVars
    \/ (\E o \in WindowOffsets : cardClick(o)) /\ UNCHANGED restVars
    \/ (\E l \in Locations : handleSearch(l)) /\ UNCHANGED restVars
    \/ searchTimer /\ UNCHANGED restVars
    \/ searchWeatherOk /\ UNCHANGED restVars
    \/ searchFail /\ UNCHANGED restVars
    \/ (\E i \in GeneratedImages \cup {Placeholder} : searchImageDone(i))
          /\ UNCHANGED restVars
    \/ handleFantasyCreate /\ UNCHANGED restVars
    \/ (\E i \in GeneratedImages : fantasyDone(i)) /\ UNCHANGED restVars
    \/ fantasyFail /\ UNCHANGED restVars
    \/ (\E c \in AllCards : handleRefresh(c)) /\ UNCHANGED restVars
    \/ (\E i \in GeneratedImages \cup {Placeholder} : refreshDone(i))
          /\ UNCHANGED restVars
    \/ refreshFail /\ UNCHANGED restVars
    \/ (\E id \in 1..MaxId : handleRemoveCard(id)) /\ UNCHANGED restVars
    \/ handleSavePreview /\ UNCHANGED restVars
    \/ previewCancel /\ UNCHANGED restVars
    \/ expandedClose /\ UNCHANGED restVars
    \/ dismissError /\ UNCHANGED restVars

Spec == Init /\ [][Next]_vars

\* The application under the assumption that every collaborator call
\* eventually resolves or rejects and every timer eventually fires.  The
\* user moves the cursor within UserReach of 0, so that the bound MaxIdx of
\* the model never keeps the 1 s timer of a duplicate search from firing.
UserReach == MaxIdx - 2 * (MaxCards - 1)

TimerFires == searchTimer /\ UNCHANGED restVars
WeatherSettles == (searchWeatherOk \/ searchFail) /\ UNCHANGED restVars
SceneSettles ==
    (\E i \in GeneratedImages \cup {Placeholder} : searchImageDone(i))
    /\ UNCHANGED restVars
FantasySettles ==
    ((\E i \in GeneratedImages : fantasyDone(i)) \/ fantasyFail)
    /\ UNCHANGED restVars
RefreshSettles ==
    ((\E i \in GeneratedImages \cup {Placeholder} : refreshDone(i))
       \/ refreshFail)
    /\ UNCHANGED restVars

NextLive ==
    \/ (\E x \in StartXs : handleTouchStart(x)) /\ UNCHANGED restVars
    \/ (\E x \in AppXs : handleTouchMove(x)) /\ UNCHANGED restVars
    \/ handleTouchEnd /\ Abs(activeIndex') <= UserReach
          /\ UNCHANGED restVars
    \/ (\E o \in WindowOffsets : cardClick(o))
          /\ Abs(activeIndex') <= UserReach /\ UNCHANGED restVars
    \/ (\E l \in Locations : handleSearch(l)) /\ UNCHANGED restVars
    \/ TimerFires
    \/ WeatherSettles
    \/ SceneSettles
    \/ handleFantasyCreate /\ UNCHANGED restVars
    \/ FantasySettles
    \/ (\E c \in AllCards : handleRefresh(c)) /\ UNCHANGED restVars
    \/ RefreshSettles
    \/ (\E id \in 1..MaxId : handleRemoveCard(id)) /\ UNCHANGED restVars
    \/ handleSavePreview /\ UNCHANGED restVars
    \/ previewCancel /\ UNCHANGED restVars
    \/ expandedClose /\ UNCHANGED restVars
    \/ dismissError /\ UNCHANGED restVars

SpecLive ==
    /\ Init /\ [][NextLive]_vars
    /\ WF_vars(TimerFires)
    /\ WF_vars(WeatherSettles)
    /\ WF_vars(SceneSettles)
    /\ WF_vars(FantasySettles)
    /\ WF_vars(RefreshSettles)

\* ------------------------------------------------ gesture specification
\* The stack alone: a collection of 0..MaxStack saved cards, the cursor at 0,
\* and the pointer handlers, card clicks and the return button acting on it.
StackOf(n) ==
    [i \in 1..n |-> [id |-> i, born |-> i, loc |-> i, fict |-> FALSE,
                     img |-> 1, view |-> 0]]

InitGesture ==
    /\ state = "IDLE"
    /\ savedCards \in {StackOf(n) : n \in 0..MaxStack}
    /\ activeIndex = 0
    /\ dragX = 0
    /\ isDragging = FALSE
    /\ dragStartX = NoPos
    /\ previewCard = NoCard
    /\ expandedCardId = Null
    /\ refreshingCardId = Null
    /\ errorMsg = ""
    /\ nextId = MaxStack + 1
    /\ searchFlow = NoSearch
    /\ fantasyFlow = "idle"
    /\ refreshFlow = NoRefresh
    /\ leftSwipes = [n |-> 0, only |-> TRUE]
    /\ CardInit
    /\ InputInit
    /\ screenWidth = InitialWidth
    /\ DismissInit

\* a release that commits "next": dragged left beyond the swipe threshold
CommittedLeft ==
    dragStartX # NoPos /\ isDragging /\ dragX < -SWIPE_THRESHOLD

\* any other move of the cursor ends the count
SpoilOnMove ==
    leftSwipes' = IF activeIndex' # activeIndex
                  THEN [n |-> 0, only |-> FALSE]
                  ELSE leftSwipes

\* history of a release: the count is kept only while left swipes are all
\* that moved the cursor
CountSwipe ==
    IF leftSwipes.only /\ CommittedLeft
    THEN leftSwipes' = [leftSwipes EXCEPT !.n = @ + 1]
    ELSE SpoilOnMove

NextGesture ==
    \/ (\E x \in StartXs : handleTouchStart(x)) /\ UNCHANGED restVars
    \/ (\E x \in GestureXs : handleTouchMove(x)) /\ UNCHANGED restVars
    \/ handleTouchEnd /\ CountSwipe
          /\ UNCHANGED <<cardVars, inputVars, screenWidth, dismissVars>>
    \/ (\E o \in WindowOffsets : cardClick(o)) /\ SpoilOnMove
          /\ UNCHANGED <<cardVars, inputVars, screenWidth, dismissVars>>
    \/ expandedClose /\ UNCHANGED restVars

SpecGesture == InitGesture /\ [][NextGesture]_vars

\* ------------------------------------------ WeatherCard: full image view
\* (src/components/WeatherCard.tsx) The card shown expanded or as preview
\* opens a full image view in which the scene can be edited; edits are kept
\* in a local history and committed to App when the view is closed.
Prompts == {"", "snow"}

\* the image prop of the card
CardImage == [img |-> TargetCard.img, view |-> TargetCard.view]

\* const activeImage = history.length > 0 ? history[historyIndex] : image
activeImage ==
    IF Len(history) > 0 THEN history[historyIndex + 1] ELSE CardImage

\* the image editWeatherScene returns for the n-th request
EditedImage(n) == [img |-> Cardinality(GeneratedImages) + n, view |-> 0]

RemoveAt(seq, k) == SubSeq(seq, 1, k - 1) \o SubSeq(seq, k + 1, Len(seq))

\* click on the image of the expanded card, then the [showFullImage] effect
openFullImage ==
    /\ PreviewClickable \/ ExpandedClickable
    /\ ~showFullImage
    /\ showFullImage' = TRUE
    /\ IF Len(history) = 0
       THEN history' = <<CardImage>> /\ historyIndex' = 0
       ELSE UNCHANGED <<history, historyIndex>>
    /\ UNCHANGED <<pvars, showAdjustInput, adjustPrompt, currentViewConfig,
                   isEditing, editFlows, editCount>>

\* PanZoomImage onTransformChange; the image is covered while isEditing
panZoom(viewConfig) ==
    /\ showFullImage /\ ~showAdjustInput /\ ~isEditing
    /\ currentViewConfig' = viewConfig
    /\ UNCHANGED <<pvars, showFullImage, showAdjustInput, adjustPrompt,
                   history, historyIndex, isEditing, editFlows, editCount>>

\* the "Adjust Scene" button of the bottom bar, drawn above the
\* "Redrawing Scene..." layer
openAdjust ==
    /\ showFullImage /\ ~showAdjustInput
    /\ showAdjustInput' = TRUE
    /\ UNCHANGED <<pvars, showFullImage, adjustPrompt, currentViewConfig,
                   history, historyIndex, isEditing, editFlows, editCount>>

\* Cancel, or a click on the backdrop of the dialog
cancelAdjust ==
    /\ showFullImage /\ showAdjustInput
    /\ showAdjustInput' = FALSE
    /\ UNCHANGED <<pvars, showFullImage, adjustPrompt, currentViewConfig,
                   history, historyIndex, isEditing, editFlows, editCount>>

\* onChange of the dialog's textarea
typePrompt(text) ==
    /\ showFullImage /\ showAdjustInput
    /\ adjustPrompt' = text
    /\ UNCHANGED <<pvars, showFullImage, showAdjustInput, currentViewConfig,
                   history, historyIndex, isEditing, editFlows, editCount>>

\* "Generate Preview": up to the await of editWeatherScene.  The call
\* closes over history and historyIndex; isEditing is not tested.
handleSubmitAdjust ==
    /\ showFullImage /\ showAdjustInput
    /\ IF adjustPrompt = ""
       THEN UNCHANGED <<pvars, cardVars>>
       ELSE /\ editCount < MaxEdits
            /\ isEditing' = TRUE
            /\ showAdjustInput' = FALSE
            /\ editCount' = editCount + 1
            /\ editFlows' = Append(editFlows, [n |-> editCount + 1,
                                                hist |-> history,
                                                idx |-> historyIndex])
            /\ UNCHANGED <<pvars, showFullImage, adjustPrompt,
                           currentViewConfig, history, historyIndex>>

\* editWeatherScene resolved for the k-th call in flight, then finally
editDone(k) ==
    /\ k \in 1..Len(editFlows)
    /\ LET f == editFlows[k]
           newHistory == SubSeq(f.hist, 1, Min(f.idx + 1, Len(f.hist)))
                            \o <<EditedImage(f.n)>>
       IN /\ history' = newHistory
          /\ historyIndex' = Len(newHistory) - 1
    /\ isEditing' = FALSE
    /\ adjustPrompt' = ""
    /\ editFlows' = RemoveAt(editFlows, k)
    /\ UNCHANGED <<pvars, showFullImage, showAdjustInput, currentViewConfig,
                   editCount>>

\* editWeatherScene rejected: catch, then finally
editFail(k) ==
    /\ k \in 1..Len(editFlows)
    /\ isEditing' = FALSE
    /\ adjustPrompt' = ""
    /\ editFlows' = RemoveAt(editFlows, k)
    /\ UNCHANGED <<pvars, showFullImage, showAdjustInput, currentViewConfig,
                   history, historyIndex, editCount>>

\* the undo / redo buttons of the bottom bar
historyStep(by) ==
    /\ showFullImage /\ ~showAdjustInput
    /\ Len(history) > 1
    /\ by = -1 => historyIndex # 0
    /\ by = 1 => historyIndex # Len(history) - 1
    /\ historyIndex' = historyIndex + by
    /\ UNCHANGED <<pvars, showFullImage, showAdjustInput, adjustPrompt,
                   currentViewConfig, history, isEditing, editFlows,
                   editCount>>

\* "Save": commits the view config and the selected image to App (both
\* App handlers run in the same event on the same render's values, so the
\* second setState is the one that stays), then the [showFullImage] and
\* [image.viewConfig] effects
handleCloseFullImage ==
    /\ showFullImage /\ ~showAdjustInput
    /\ LET callView == currentViewConfig # 0
           callImage == activeImage.img # CardImage.img
           newView == IF callImage THEN activeImage.view
                      ELSE IF callView THEN currentViewConfig
                      ELSE CardImage.view
       IN /\ IF callImage THEN handleImageUpdate(activeImage)
             ELSE IF callView THEN handleUpdateView(currentViewConfig)
             ELSE UNCHANGED pvars
          /\ currentViewConfig' = IF newView # CardImage.view
                                  THEN newView ELSE currentViewConfig
    /\ showFullImage' = FALSE
    /\ showAdjustInput' = FALSE
    /\ history' = <<>>
    /\ historyIndex' = 0
    /\ isEditing' = FALSE
    /\ UNCHANGED <<adjustPrompt, editFlows, editCount>>

\* One card, shown as preview or expanded, and its full image view.
InitEdit ==
    /\ \/ /\ savedCards = StackOf(1) /\ expandedCardId = 1
          /\ previewCard = NoCard /\ state = "IDLE"
       \/ /\ savedCards = <<>> /\ expandedCardId = Null
          /\ previewCard = StackOf(1)[1] /\ state = "SUCCESS"
    /\ activeIndex = 0
    /\ dragX = 0
    /\ isDragging = FALSE
    /\ dragStartX = NoPos
    /\ refreshingCardId = Null
    /\ errorMsg = ""
    /\ nextId = 2
    /\ searchFlow = NoSearch
    /\ fantasyFlow = "idle"
    /\ refreshFlow = NoRefresh
    /\ leftSwipes = [n |-> 0, only |-> TRUE]
    /\ CardInit
    /\ InputInit
    /\ screenWidth = InitialWidth
    /\ DismissInit

NextEdit ==
    \/ openFullImage /\ UNCHANGED notCard
    \/ (\E v \in ViewConfigs : panZoom(v)) /\ UNCHANGED notCard
    \/ openAdjust /\ UNCHANGED notCard
    \/ cancelAdjust /\ UNCHANGED notCard
    \/ (\E t \in Prompts : typePrompt(t)) /\ UNCHANGED notCard
    \/ handleSubmitAdjust /\ UNCHANGED notCard
    \/ (\E k \in 1..MaxEdits : editDone(k)) /\ UNCHANGED notCard
    \/ (\E k \in 1..MaxEdits : editFail(k)) /\ UNCHANGED notCard
    \/ (\E by \in {-1, 1} : historyStep(by)) /\ UNCHANGED notCard
    \/ handleCloseFullImage /\ UNCHANGED notCard

SpecEdit == InitEdit /\ [][NextEdit]_vars

\* ----------------------------------------------------------- SearchInput
\* (src/components/SearchInput.tsx) Search-as-you-type: the [value] effect
\* arms a 400 ms timeout on every change of value and clears the previous
\* one; the timeout calls searchCities unless the latch is set.
TypedValues ==
    {<<>>, <<"p", "a">>, <<"p", "a", "r">>, <<"p", "a", "r", "i">>}

\* `${loc.name}, ${loc.country}`
Label(loc) ==
    IF loc = 1 THEN <<"P", "a", "r", "i", "s">>
    ELSE <<"P", "a", "r", "m", "a">>

\* what the geocoding service answers: both cities match "pa" and "par",
\* only the first matches "pari"
searchCities(query) ==
    IF Len(query) < 2 THEN <<>>
    ELSE IF Len(query) < 4 THEN <<1, 2>>
    ELSE <<1>>

InputEnabled == state \in {"IDLE", "SUCCESS"}

\* handleChange, then the cleanup and re-run of the [value] effect
handleChange(text) ==
    /\ InputEnabled
    /\ text # value
    /\ value' = text
    /\ debounceTimer' = TRUE
    /\ UNCHANGED <<pvars, suggestions, preventSearch, searchReqs, cycles,
                   sugFrom>>

\* value.length > 2
IssuesSearch(text) == Len(text) > 2

\* the timeout callback, up to the await of searchCities
debounceFire ==
    /\ debounceTimer
    /\ debounceTimer' = FALSE
    /\ IF preventSearch
       THEN /\ preventSearch' = FALSE
            /\ UNCHANGED <<suggestions, searchReqs, cycles, sugFrom>>
       ELSE /\ cycles < MaxCycles
            /\ cycles' = cycles + 1
            /\ UNCHANGED preventSearch
            /\ IF IssuesSearch(value)
               THEN /\ searchReqs' = Append(searchReqs,
                                            [n |-> cycles + 1, q |-> value])
                    /\ UNCHANGED <<suggestions, sugFrom>>
               ELSE /\ suggestions' = <<>>
                    /\ sugFrom' = cycles + 1
                    /\ UNCHANGED searchReqs
    /\ UNCHANGED <<pvars, value>>

\* searchCities resolved for the k-th call in flight (with [] when the
\* request failed): setSuggestions(results)
citiesDone(k, ok) ==
    /\ k \in 1..Len(searchReqs)
    /\ suggestions' = IF ok THEN searchCities(searchReqs[k].q) ELSE <<>>
    /\ sugFrom' = searchReqs[k].n
    /\ searchReqs' = RemoveAt(searchReqs, k)
    /\ UNCHANGED <<pvars, value, preventSearch, debounceTimer, cycles>>

\* click on a suggestion, or Enter for the first one: sets the latch, writes
\* the label into the input and calls onSearch = handleSearch.  The effect
\* re-runs only when the value changed.
handleSelect(loc) ==
    /\ InputEnabled
    /\ \E i \in 1..Len(suggestions) : suggestions[i] = loc
    /\ preventSearch' = TRUE
    /\ value' = Label(loc)
    /\ debounceTimer' = IF Label(loc) # value THEN TRUE ELSE debounceTimer
    /\ handleSearch(loc)
    /\ UNCHANGED <<suggestions, searchReqs, cycles, sugFrom>>

\* SearchInput together with the App flow a selection starts.  That flow
\* outlasts the 400 ms timeout (the duplicate branch waits 1000 ms, the
\* other one for the weather and image services), so it completes with no
\* timeout pending.
NextSearch ==
    \/ (\E t \in TypedValues : handleChange(t))
          /\ UNCHANGED notInput
    \/ debounceFire /\ UNCHANGED notInput
    \/ (\E k \in 1..MaxCycles, ok \in BOOLEAN : citiesDone(k, ok))
          /\ UNCHANGED notInput
    \/ (\E l \in {1, 2} : handleSelect(l)) /\ UNCHANGED notInput
    \/ searchTimer /\ ~debounceTimer /\ UNCHANGED restVars
    \/ searchWeatherOk /\ UNCHANGED restVars
    \/ searchFail /\ ~debounceTimer /\ UNCHANGED restVars
    \/ (\E i \in GeneratedImages : searchImageDone(i)) /\ ~debounceTimer
          /\ UNCHANGED restVars
    \/ handleSavePreview /\ UNCHANGED restVars
    \/ previewCancel /\ UNCHANGED restVars
    \/ expandedClose /\ UNCHANGED restVars
    \/ dismissError /\ UNCHANGED restVars

SpecSearch == Init /\ [][NextSearch]_vars

\* ------------------------------------------------------- layout engine
\* getCardStyle (src/App.tsx).  progress = relativeOffset + dragX / W is kept
\* exact as the integer pn = progress * W, and x, scale and opacity as
\* integers in units of 1 / (20 * W): 20 clears the factors 0.05, 0.2, 1.5,
\* 0.9 and 1/2 of the code, W the division by screenWidth.
ScreenWidths == {320, 375, 378, 1280}

Max(a, b) == IF a > b THEN a ELSE b

\* the mount effect and the resize listener: setScreenWidth(innerWidth)
updateWidth(w) ==
    /\ screenWidth' = w
    /\ UNCHANGED <<pvars, leftSwipes, cardVars, inputVars, dismissVars>>

\* 20 * parkX, with cardWidth = Math.min(340, screenWidth * 0.9) and
\* parkX = -(screenWidth / 2) - (cardWidth / 2) + peekAmount
ParkX20(W) == -(10 * W) - Min(3400, 9 * W) + 400

DiscardScaleShrunk(pn, W) == 19 * W + Max(pn, -W)
\* scale = 1 + (Math.max(progress, -1) * 0.05)
DiscardScale(pn, W) == 20 * W + Max(pn, -W)

\* the branch progress < 0 (left side, discarded)
DiscardSide(pn, W) ==
    [x |-> pn * Abs(ParkX20(W)),
     scale |-> DiscardScale(pn, W),
     \* Math.round(Math.abs(progress) * 10)
     zIndex |-> 200 + ((20 * Abs(pn) + W) \div (2 * W)),
     \* if (progress < -0.2) opacity = max(0, 1 - (|progress| - 0.2) * 1.5)
     opacity |-> IF 5 * pn < -W THEN Max(0, 26 * W - 30 * Abs(pn))
                 ELSE 20 * W]

StackZIndexPerTwo(pn, W) == 100 - ((pn + W - 1) \div (2 * W))
\* zIndex = 100 - Math.ceil(progress), for progress >= 0
StackZIndex(pn, W) == 100 - ((pn + W - 1) \div W)

\* the branch progress >= 0 (right side, stack)
StackSide(pn, W) ==
    [x |-> pn * 400,
     scale |-> 20 * W - pn,
     zIndex |-> StackZIndex(pn, W),
     \* if (progress > 3) opacity = max(0, 1 - (progress - 3))
     opacity |-> IF pn > 3 * W THEN Max(0, 80 * W - 20 * pn) ELSE 20 * W]

\* the style at progress = pn / W, with the safety clamp of scale at 0.5
StyleAt(pn, W) ==
    LET s == IF pn < 0 THEN DiscardSide(pn, W) ELSE StackSide(pn, W)
    IN [s EXCEPT !.scale = Max(10 * W, @)]

getCardStyle(relativeOffset) ==
    StyleAt(relativeOffset * screenWidth + dragX, screenWidth)

\* The stack under drag on screens of several widths.
NextLayout ==
    \/ (\E x \in StartXs : handleTouchStart(x)) /\ UNCHANGED restVars
    \/ (\E x \in GestureXs : handleTouchMove(x)) /\ UNCHANGED restVars
    \/ handleTouchEnd /\ UNCHANGED restVars
    \/ \E w \in ScreenWidths : updateWidth(w)

SpecLayout == InitGesture /\ [][NextLayout]_vars

\* ---------------------------------------------------- removal specification
\* The stack with its remove button, started with the cursor anywhere within
\* two turns of the collection (the cursor is stored unwrapped, so swipes
\* take it to any integer).
MaxSpan == 2 * MaxStack

InitRemove ==
    /\ state = "IDLE"
    /\ savedCards \in {StackOf(n) : n \in 1..MaxStack}
    /\ activeIndex \in -MaxSpan..MaxSpan
    /\ dragX = 0
    /\ isDragging = FALSE
    /\ dragStartX = NoPos
    /\ previewCard = NoCard
    /\ expandedCardId = Null
    /\ refreshingCardId = Null
    /\ errorMsg = ""
    /\ nextId = MaxStack + 1
    /\ searchFlow = NoSearch
    /\ fantasyFlow = "idle"
    /\ refreshFlow = NoRefresh
    /\ leftSwipes = [n |-> 0, only |-> TRUE]
    /\ CardInit
    /\ InputInit
    /\ screenWidth = InitialWidth
    /\ DismissInit

NextRemove ==
    \/ (\E x \in StartXs : handleTouchStart(x)) /\ UNCHANGED restVars
    \/ (\E x \in AppXs : handleTouchMove(x)) /\ UNCHANGED restVars
    \/ handleTouchEnd /\ UNCHANGED restVars
    \/ (\E o \in WindowOffsets : cardClick(o)) /\ UNCHANGED restVars
    \/ expandedClose /\ UNCHANGED restVars
    \/ (\E id \in 1..MaxStack : handleRemoveCard(id)) /\ UNCHANGED restVars

SpecRemove == InitRemove /\ [][NextRemove]_vars

\* ------------------------------------------- WeatherCard: drag to dismiss
\* Lengths are in 1/20 px so that diff * 1.05 is the integer diff * 21.
StartYs == {300, 329}
MoveYs == {290, 371, 372, 400, 401, 450}
\* dragOffset > 75
DismissThreshold == 75 * 20
\* window.innerHeight
ExitDistance == 800 * 20

\* the overlay card whose touch handlers are attached and reachable
CardOverlay ==
    IF PreviewClickable THEN "preview"
    ELSE IF ExpandedClickable THEN "expanded"
    ELSE "none"

\* the local state of the next mounted WeatherCard instance
FreshCard ==
    /\ touchStart' = NoPos
    /\ dragOffset' = 0
    /\ isDismissing' = FALSE
    /\ scrolledTop' = TRUE

\* only the preview overlay passes onDrag
onDrag(offset) ==
    previewDragOffset' =
        IF CardOverlay = "preview" THEN offset ELSE previewDragOffset

DragOffsetOf(diff) == IF diff > 0 THEN diff * 21 ELSE 0

onTouchStart(y) ==
    /\ CardOverlay # "none" /\ ~showFullImage
    /\ touchStart' = IF ~isDismissing /\ scrolledTop THEN y ELSE touchStart
    /\ UNCHANGED <<dragOffset, isDismissing, scrolledTop, dismissTimer,
                   previewDragOffset>>
    /\ UNCHANGED <<pvars, leftSwipes, cardVars, inputVars, screenWidth>>

onTouchMove(y) ==
    /\ CardOverlay # "none" /\ ~showFullImage
    /\ IF ~isDismissing /\ touchStart # NoPos /\ scrolledTop
       THEN /\ dragOffset' = DragOffsetOf(y - touchStart)
            /\ onDrag(DragOffsetOf(y - touchStart))
       ELSE UNCHANGED <<dragOffset, previewDragOffset>>
    /\ UNCHANGED <<touchStart, isDismissing, scrolledTop, dismissTimer>>
    /\ UNCHANGED <<pvars, leftSwipes, cardVars, inputVars, screenWidth>>

DismissesOnRawDiff == dragOffset > 75 * 21
Dismisses == dragOffset > DismissThreshold

onTouchEnd ==
    /\ CardOverlay # "none" /\ ~showFullImage
    /\ IF isDismissing
       THEN UNCHANGED dismissVars
       ELSE /\ touchStart' = NoPos
            /\ IF touchStart = NoPos
               THEN UNCHANGED <<dragOffset, isDismissing, dismissTimer,
                                previewDragOffset>>
               ELSE IF Dismisses
               THEN /\ isDismissing' = TRUE
                    /\ dragOffset' = ExitDistance
                    /\ onDrag(ExitDistance)
                    /\ dismissTimer' = CardOverlay
               ELSE /\ dragOffset' = 0
                    /\ onDrag(0)
                    /\ UNCHANGED <<isDismissing, dismissTimer>>
            /\ UNCHANGED scrolledTop
    /\ UNCHANGED <<pvars, leftSwipes, cardVars, inputVars, screenWidth>>

\* the content scrolls only while the card is not dragged (overflow-hidden)
cardScroll ==
    /\ CardOverlay # "none" /\ ~showFullImage
    /\ dragOffset = 0
    /\ scrolledTop' = ~scrolledTop
    /\ UNCHANGED <<touchStart, dragOffset, isDismissing, dismissTimer,
                   previewDragOffset>>
    /\ UNCHANGED <<pvars, leftSwipes, cardVars, inputVars, screenWidth>>

\* the Cancel button of the preview card
cancelClick ==
    /\ PreviewClickable /\ ~showFullImage
    /\ isDismissing' = TRUE
    /\ dragOffset' = ExitDistance
    /\ dismissTimer' = "preview"
    /\ UNCHANGED <<touchStart, scrolledTop, previewDragOffset>>
    /\ UNCHANGED <<pvars, leftSwipes, cardVars, inputVars, screenWidth>>

\* the Return button of the expanded card: onToggleExpand at once
returnClick ==
    /\ ~showFullImage
    /\ expandedClose
    /\ FreshCard
    /\ UNCHANGED <<dismissTimer, previewDragOffset>>
    /\ UNCHANGED <<leftSwipes, cardVars, inputVars, screenWidth>>

\* the Add button of the preview card
addClick ==
    /\ PreviewClickable /\ ~showFullImage
    /\ handleSavePreview
    /\ previewDragOffset' = 0
    /\ FreshCard
    /\ UNCHANGED dismissTimer
    /\ UNCHANGED <<leftSwipes, cardVars, inputVars, screenWidth>>

\* the 300 ms timeout calls the onToggleExpand the card was given
dismissFire ==
    /\ dismissTimer # "none"
    /\ dismissTimer' = "none"
    /\ IF dismissTimer = "preview"
       THEN /\ previewCard' = NoCard
            /\ previewDragOffset' = 0
            /\ UNCHANGED expandedCardId
       ELSE /\ expandedCardId' = Null
            /\ UNCHANGED <<previewCard, previewDragOffset>>
    /\ FreshCard
    /\ UNCHANGED <<state, savedCards, activeIndex, gestureVars,
                   refreshingCardId, errorMsg, nextId, flowVars>>
    /\ UNCHANGED <<leftSwipes, cardVars, inputVars, screenWidth>>

\* a click on the centre card of the stack mounts the expanded card
expandClick ==
    /\ cardClick(0)
    /\ UNCHANGED restVars

NextDismiss ==
    \/ \E y \in StartYs : onTouchStart(y)
    \/ \E y \in MoveYs : onTouchMove(y)
    \/ onTouchEnd
    \/ cardScroll
    \/ cancelClick
    \/ returnClick
    \/ addClick
    \/ dismissFire
    \/ expandClick

SpecDismiss == InitEdit /\ [][NextDismiss]_vars

\* --------------------------------------------------------------- claims
ViewMode ==
    IF previewCard # NoCard /\ expandedCardId # Null THEN "Both"
    ELSE IF previewCard # NoCard THEN "Preview"
    ELSE IF expandedCardId # Null THEN "Expanded"
    ELSE "Stack"

\* the id of the card the window shows at a relative offset
CardAt(offset) == getCardData(activeIndex + offset).id

\* a step that ends a gesture (only a pointer-up clears dragStartX)
Release == dragStartX # NoPos /\ dragStartX' = NoPos

\* a pointer event handled by the stack container
PointerEvent ==
    \/ \E x \in StartXs : handleTouchStart(x)
    \/ \E x \in AppXs : handleTouchMove(x)
    \/ handleTouchEnd

\* C1: at most one non-Stack view mode is active: expandedCardId and
\* previewCard are never both set (entering Expanded during a preview, or
\* Preview while a card is expanded, is rejected).
C1_MutualExclusion == ~(expandedCardId # Null /\ previewCard # NoCard)

\* C2: saving a preview appends exactly the preview card at the end of the
\* collection, clears the preview and makes the appended card the active one
\* (the wrapped activeIndex is its position); without a preview, save changes
\* nothing.
C2_SavePromotes ==
    [][handleSavePreview =>
          IF previewCard # NoCard
          THEN /\ savedCards' = Append(savedCards, previewCard)
               /\ previewCard' = NoCard
               /\ Wrap(activeIndex', Len(savedCards')) + 1 = Len(savedCards')
               /\ savedCards'[Wrap(activeIndex', Len(savedCards')) + 1]
                      = previewCard
          ELSE UNCHANGED pvars]_vars

\* a second card has been saved and is the active one
C2_SecondCardSaved ==
    /\ Len(savedCards) = 2 /\ previewCard = NoCard /\ state = "IDLE"
    /\ activeIndex = 1 /\ getCardData(activeIndex) = savedCards[2]
    /\ savedCards[1] # savedCards[2]

\* C3: a card's id never changes after creation: every card of the
\* collection and the preview card carry the id they were created with.
C3_IdStable == \A c \in AllCards : c.id = c.born

C6_DragHysteresis ==
    [][\A x \in GestureXs :
          (handleTouchMove(x) /\ dragStartX # NoPos /\ ViewMode = "Stack") =>
              LET delta == x - dragStartX IN
              /\ (~isDragging /\ Abs(delta) <= 5 => ~isDragging')
              /\ (~isDragging /\ Abs(delta) > 5 => isDragging')
              /\ (isDragging => isDragging' /\ dragX' = delta)]_vars

\* dragging, with a delta below the drag threshold stored in dragX
C6_SmallDeltaReported == isDragging /\ dragX = 4 /\ dragStartX # NoPos

\* C7: while the view mode is Expanded or Preview, or the collection is
\* empty, no pointer down / move / up changes activeIndex, dragX, isDragging
\* or the view mode.
C7_InputIgnored ==
    [][(PointerEvent /\ (ViewMode # "Stack" \/ Len(savedCards) = 0)) =>
          UNCHANGED <<activeIndex, dragX, isDragging, previewCard,
                      expandedCardId>>]_vars

\* C8: whenever the view mode is not Stack the drag state is neutral.
C8_DragNeutral ==
    ViewMode # "Stack" => dragX = 0 /\ ~isDragging /\ dragStartX = NoPos

\* C9: for every index the window reads (activeIndex plus a window offset)
\* and every collection length N > 0 the wrapped index lies in [0, N) and is
\* the same for i and i + N; getCardData returns null exactly when N = 0.
C9_WrapCorrect ==
    LET N == Len(savedCards) IN
    \A o \in WindowOffsets :
        LET i == activeIndex + o IN
        /\ N > 0 => /\ Wrap(i, N) \in 0..(N - 1)
                    /\ Wrap(i, N) = Wrap(i + N, N)
        /\ (getCardData(i) = NoCard) <=> (N = 0)

\* a negative cursor over a collection it has to wrap around
C9_NegativeIndex == activeIndex = -MaxIdx /\ Len(savedCards) = 2

\* C10: after k committed left swipes from activeIndex = 0 and no other move
\* of the cursor, the stored activeIndex is k (not wrapped) and the active
\* card is the one at position k mod N.
C10_CyclicNavigation ==
    LET N == Len(savedCards) IN
    (leftSwipes.only /\ N >= 1) =>
        /\ activeIndex = leftSwipes.n
        /\ getCardData(activeIndex) = savedCards[(leftSwipes.n % N) + 1]

\* [A, B, C] after three left swipes: the cursor is 3 and A is active again
C10_WrappedToFirst ==
    /\ Len(savedCards) = 3 /\ leftSwipes.only /\ leftSwipes.n = 3
    /\ activeIndex = 3 /\ getCardData(activeIndex) = savedCards[1]

\* C11: removing the only remaining card leaves the collection empty, sets
\* activeIndex to 0 and state to IDLE; removing a card from a collection of
\* two or more removes exactly that one card (the others keep their order)
\* and leaves the stored activeIndex unchanged.
C11_RemoveExact ==
    [][\A id \in 1..MaxId : handleRemoveCard(id) =>
          LET N == Len(savedCards) IN
          /\ N = 1 => savedCards' = <<>> /\ activeIndex' = 0 /\ state' = "IDLE"
          /\ N >= 2 =>
                /\ \E k \in 1..N :
                      /\ savedCards[k].id = id
                      /\ savedCards' = SubSeq(savedCards, 1, k - 1)
                                          \o SubSeq(savedCards, k + 1, N)
                /\ activeIndex' = activeIndex]_vars

\* C12: the preview card, when present, is not a member of the saved
\* collection: no saved card has the preview card's id.
C12_PreviewNotSaved ==
    previewCard # NoCard =>
        \A i \in 1..Len(savedCards) : savedCards[i].id # previewCard.id

\* C13: previewCard goes from absent to present only when a search or a
\* fantasy creation completes; in particular the completion of a refresh
\* started on a preview that has since been cancelled or saved does not set
\* previewCard again.
C13_PreviewStaysGone ==
    [][(previewCard = NoCard /\ previewCard' # NoCard) =>
          \/ \E i \in GeneratedImages \cup {Placeholder} : searchImageDone(i)
          \/ \E i \in GeneratedImages : fantasyDone(i)]_vars

\* C14: a refresh request made while a refresh is in flight changes nothing
\* (no second fetch is issued, no state is written), and refreshingCardId is
\* set exactly while a refresh is in flight and names its card.
C14_SingleFlightRefresh ==
    [][/\ ((\E c \in AllCards : handleRefresh(c))
              /\ refreshFlow.pc = "pending") => UNCHANGED pvars
       /\ (refreshFlow'.pc = "pending") = (refreshingCardId' # Null)
       /\ refreshFlow'.pc = "pending" =>
              refreshingCardId' = refreshFlow'.card.id]_vars

\* a refresh of one saved card is in flight while the refresh button of the
\* other saved card, at the centre of the stack, can be pressed
C14_SecondRequestPossible ==
    /\ refreshFlow.pc = "pending" /\ StackClickable
    /\ Len(savedCards) = 2
    /\ refreshFlow.card.id = savedCards[1].id
    /\ getCardData(activeIndex) = savedCards[2]
    /\ savedCards[1].id # savedCards[2].id

\* C15: at most one edit request of the card is in flight: a second
\* handleSubmitAdjust while isEditing is rejected.
C15_SingleFlightEdit == Len(editFlows) <= 1

\* C16: a failed flow leaves no partial card state.  When a refresh fails
\* (getWeatherData or the scene generation fails) savedCards and previewCard
\* are what they were; when a search or a fantasy creation fails (weather
\* fetch or scene generation) no preview is set, no card is added, state
\* becomes ERROR and errorMsg is not empty.  A failed generateWeatherScene
\* is the completion that delivers the Placeholder image.
C16_NoPartialState ==
    [][/\ (refreshFail \/ refreshDone(Placeholder)) =>
              UNCHANGED <<savedCards, previewCard>>
       /\ (searchFail \/ fantasyFail \/ searchImageDone(Placeholder)) =>
              /\ UNCHANGED <<savedCards, previewCard>>
              /\ state' = "ERROR" /\ errorMsg' # ""]_vars

\* C17: a response is applied to the suggestions only if its request was
\* issued after the debounce cycle that wrote the suggestions now shown: a
\* response for an older value never overwrites the suggestions of a newer
\* one, whatever the order of arrival.
C17_NewestResponseWins ==
    [][\A k \in 1..MaxCycles, ok \in BOOLEAN :
          citiesDone(k, ok) => searchReqs[k].n > sugFrom]_vars

\* C18: the timeout that follows a selection (value is a suggestion's label)
\* issues no search, and the timeout that follows a value of 3 or more
\* characters typed by the user issues the search for it, also after a
\* selection.
C18_SuppressLatch ==
    [][debounceFire =>
          /\ (\E l \in {1, 2} : value = Label(l)) => searchReqs' = searchReqs
          /\ (value \in TypedValues /\ Len(value) > 2) =>
                /\ Len(searchReqs') = Len(searchReqs) + 1
                /\ searchReqs'[Len(searchReqs')].q = value]_vars

\* C19: the drag is a function of the latest cumulative delta alone: after
\* every move of a gesture that is dragging, dragX is that move's delta,
\* however many moves came before it (also after the first and only move),
\* so that two gestures with the same start and the same last position show
\* the same dragX and commit alike on release.
C19_LatestDeltaDecides ==
    [][\A x \in GestureXs :
          (handleTouchMove(x) /\ dragStartX # NoPos /\ ViewMode = "Stack") =>
              (isDragging' => dragX' = x - dragStartX)]_vars

\* C20: getCardStyle has no jump at progress = 0.  At progress = 0 the style
\* is x = 0, scale = 1, opacity = 1; the discard-side formulas give the same
\* three values at 0; and for every rendered card with -0.2 <= progress < 0
\* the distance of x and of scale from those values is at most proportional
\* to |progress| (so it vanishes as progress approaches 0 from below) and
\* opacity is 1, for every screen width.
C20_ContinuousAtZero ==
    LET W == screenWidth
        one == 20 * W
        at0 == StyleAt(0, W)
        below == DiscardSide(0, W)
    IN /\ at0.x = 0 /\ at0.scale = one /\ at0.opacity = one
       /\ below.x = at0.x /\ below.scale = at0.scale
       /\ below.opacity = at0.opacity
       /\ \A o \in WindowOffsets :
             LET pn == o * W + dragX
                 s == getCardStyle(o)
             IN (pn < 0 /\ 5 * (-pn) <= W) =>
                   /\ Abs(s.x - at0.x) <= (-pn) * Abs(ParkX20(W))
                   /\ Abs(s.scale - at0.scale) <= -pn
                   /\ s.opacity = at0.opacity

\* the centre card dragged 4 px to the left on a 320 px screen
C20_SlightlyLeftOfCentre ==
    isDragging /\ dragX = -4 /\ screenWidth = 320 /\ Len(savedCards) >= 1

\* C21: after a removal from a collection of N >= 2 cards the card that
\* becomes active is the card that was active or one of its two cyclic
\* neighbours in the order before the removal, for every activeIndex.
C21_RemovalDriftBounded ==
    [][\A id \in 1..MaxStack :
          (handleRemoveCard(id) /\ Len(savedCards) >= 2) =>
              LET N == Len(savedCards)
                  p == Wrap(activeIndex, N)
                  near == {savedCards[Wrap(p + d, N) + 1] : d \in {-1, 0, 1}}
              IN savedCards'[Wrap(activeIndex', Len(savedCards')) + 1]
                    \in near]_vars

\* a touch event handled by the overlay card
CardTouch ==
    \/ \E y \in StartYs : onTouchStart(y)
    \/ \E y \in MoveYs : onTouchMove(y)
    \/ onTouchEnd

\* the release of a drag that began on the card
CardRelease == onTouchEnd /\ ~isDismissing /\ touchStart # NoPos

\* C22: a release with the drag offset above 75 px begins the dismissal,
\* whose timeout acts exactly as the explicit close of that overlay
\* (expanded: expandedCardId cleared; preview: preview dropped, collection
\* unchanged); a release at or below 75 px puts the drag offset back to 0
\* and keeps the view mode; once dismissal has begun touch input on the
\* card changes nothing.
C22_DragDismiss ==
    [][ /\ (CardRelease /\ dragOffset > DismissThreshold)
            => (isDismissing' /\ dismissTimer' = CardOverlay)
        /\ (dismissFire /\ dismissTimer = "expanded")
            => (expandedCardId' = Null
                /\ UNCHANGED <<state, savedCards, activeIndex, previewCard,
                               previewDragOffset>>)
        /\ (dismissFire /\ dismissTimer = "preview")
            => (previewCard' = NoCard /\ previewDragOffset' = 0
                /\ UNCHANGED <<state, savedCards, activeIndex,
                               expandedCardId>>)
        /\ (CardRelease /\ dragOffset <= DismissThreshold)
            => (dragOffset' = 0 /\ ViewMode' = ViewMode
                /\ ~isDismissing' /\ dismissTimer' = dismissTimer)
        /\ (CardTouch /\ isDismissing) => UNCHANGED vars
      ]_vars

\* a drag of the expanded card was released just above the threshold and
\* its dismissal is under way
C22_DraggedAway ==
    /\ ViewMode = "Expanded" /\ isDismissing
    /\ dismissTimer = "expanded" /\ dragOffset = ExitDistance

\* C23: a click on a rendered card at relative offset k # 0 while isDragging
\* is false adds exactly k to activeIndex, so the clicked card becomes the
\* active card; a click on the active card sets expandedCardId to its id and
\* leaves activeIndex alone; while isDragging is true a click changes
\* nothing.
C23_Jump ==
    [][\A k \in WindowOffsets :
          cardClick(k) =>
            IF isDragging THEN UNCHANGED pvars
            ELSE IF k = 0
            THEN /\ expandedCardId' = CardAt(0)
                 /\ activeIndex' = activeIndex
            ELSE /\ activeIndex' = activeIndex + k
                 /\ getCardData(activeIndex').id = CardAt(k)
                 /\ expandedCardId' = expandedCardId
                 /\ savedCards' = savedCards
      ]_vars

\* a click on the card two places behind the centre of a four-card stack
\* made it the active card
C23_JumpedTwoBack ==
    /\ Len(savedCards) = 4 /\ activeIndex = -2 /\ ~leftSwipes.only
    /\ dragStartX = NoPos /\ expandedCardId = Null

\* C24: in every frame, for every drag delta, each rendered card on the
\* discard side (progress < 0) has a z-index strictly greater than each
\* rendered card on the stack side (progress >= 0), and of two stack-side
\* cards the one at the greater relative offset has the strictly smaller
\* z-index.
C24_StackingOrder ==
    LET rendered == RenderedOffsets(Len(savedCards))
        pn(o) == o * screenWidth + dragX
    IN \A a \in rendered : \A b \in rendered :
          /\ (pn(a) < 0 /\ pn(b) >= 0)
                => getCardStyle(a).zIndex > getCardStyle(b).zIndex
          /\ (pn(a) >= 0 /\ pn(b) >= 0 /\ a < b)
                => getCardStyle(a).zIndex > getCardStyle(b).zIndex

\* the active card of a four-card stack dragged to the left, with two
\* upcoming cards behind it
C24_ActiveDraggedLeft ==
    /\ Len(savedCards) = 4 /\ isDragging /\ dragX = -101
    /\ activeIndex = 0 /\ screenWidth = 320

\* shapes of a change of the collection
AppendedOne ==
    /\ Len(savedCards') = Len(savedCards) + 1
    /\ SubSeq(savedCards', 1, Len(savedCards)) = savedCards
RemovedOne ==
    \E k \in 1..Len(savedCards) : savedCards' = RemoveAt(savedCards, k)
ReplacedOne ==
    /\ Len(savedCards') = Len(savedCards)
    /\ \E k \in 1..Len(savedCards) :
          \A j \in 1..Len(savedCards) :
             j # k => savedCards'[j] = savedCards[j]

\* C25: the collection changes only by a save (append at the end), by a
\* remove (one card deleted, the others in their order) or by a refresh
\* (one card replaced in place); pointer gestures, swipe commits, jumps,
\* opening and closing the expanded view and cancelling a preview leave it
\* as it is.
C25_CollectionFrame ==
    [][ /\ (savedCards' # savedCards) =>
              \/ handleSavePreview /\ AppendedOne
              \/ (\E id \in 1..MaxId : handleRemoveCard(id)) /\ RemovedOne
              \/ (\E i \in GeneratedImages \cup {Placeholder} :
                     refreshDone(i)) /\ ReplacedOne
        /\ ( \/ PointerEvent
             \/ \E o \in WindowOffsets : cardClick(o)
             \/ expandedClose
             \/ previewCancel ) => UNCHANGED savedCards
      ]_vars

\* C26: a search for a location that has a saved card starts the 1 s timer
\* and no weather fetch, and creates no preview and no card; when the timer
\* fires the state is IDLE, the active card (at the wrapped activeIndex) is
\* the card of that location and expandedCardId is its id, whatever
\* happened during the delay.
C26_DuplicateSearch ==
    [][ /\ \A l \in Locations :
              (handleSearch(l) /\ FindIndex(savedCards, "loc", l) # -1)
              => /\ searchFlow'.pc = "timer"
                 /\ previewCard' = NoCard
                 /\ savedCards' = savedCards
        /\ searchTimer
              => /\ state' = "IDLE"
                 /\ savedCards' = savedCards /\ previewCard' = previewCard
                 /\ getCardData(activeIndex').loc = searchFlow.loc
                 /\ expandedCardId' = getCardData(activeIndex').id
      ]_vars

\* C27: whenever expandedCardId is set it is the id of a card of the
\* collection, so the expanded view is rendered: in no reachable state is
\* expandedCardId set while no card has that id (neither the stack nor the
\* expanded view shown).
C27_ExpandedIdValid ==
    expandedCardId # Null => expandedCard # NoCard

\* C28: closing the full image view with both a pan/zoom view config set
\* and an image of the edit history selected that differs from the card's
\* leaves the target card (preview or expanded) with the selected image and
\* with that view config.
C28_CloseCommitsBoth ==
    [][ ( /\ handleCloseFullImage
          /\ currentViewConfig # 0
          /\ activeImage.img # CardImage.img )
        => /\ TargetCard'.img = activeImage.img
           /\ TargetCard'.view = currentViewConfig ]_vars

\* C29: in every reachable state no two cards of the saved collection have
\* the same id.
C29_UniqueIds ==
    \A i, j \in 1..Len(savedCards) :
       savedCards[i].id = savedCards[j].id => i = j

\* C30: when every collaborator call eventually resolves or rejects, the
\* application state does not stay FETCHING_WEATHER or GENERATING_IMAGE
\* forever and refreshingCardId is eventually cleared.
C30_FlowsEnd ==
    /\ LoadingShown ~> ~LoadingShown
    /\ (refreshingCardId # Null) ~> (refreshingCardId = Null)

\* a refresh is in flight while a search is generating its image
C30_BothBusy ==
    /\ state = "GENERATING_IMAGE" /\ searchFlow.pc = "image"
    /\ refreshingCardId # Null /\ refreshFlow.pc = "pending"
====
